---------------------------- MODULE Spec2Model ----------------------------
(***************************************************************************)
(* Model of demo-benchmarks/services/user-service/main.py: a FastAPI       *)
(* application with two routes (GET /health, POST /stats/users) and the    *)
(* pydantic model UserStats.                                               *)
(*                                                                         *)
(* A URL path is a sequence of segments: "/stats/users" is                 *)
(* <<"stats", "users">>; a trailing slash is an empty last segment, so     *)
(* "/health/" is <<"health", "">> and "/" is <<"">>.                       *)
(* A Python value is a tagged record: [t |-> "int", i |-> n],              *)
(* [t |-> "str", s |-> <<characters>>] or [t |-> "none"].                  *)
(***************************************************************************)
EXTENDS Integers, Sequences, FiniteSets, TLC

VARIABLES
    routes,     \* app.router.routes: the route table of the FastAPI application
    received,   \* number of requests the server has received so far
    pending,    \* requests received and not yet answered
    responses,  \* responses[id]: the responses sent for request id, in order
    args,       \* keyword arguments of a UserStats(...) construction
    built       \* outcome of that construction

vars == <<routes, received, pending, responses, args, built>>

-----------------------------------------------------------------------------
(* Bounds *)

MaxRequests == 2
MaxInt == 3

RequestIds == 1..MaxRequests

Methods == {"GET", "POST", "HEAD"}

Bodies == {"", "{\"active_users\": \"forty-two\"}"}

Paths ==
    { <<"health">>, <<"stats", "users">>, <<"openapi.json">>, <<"docs">>,
      <<"docs", "oauth2-redirect">>, <<"invalid-endpoint">>, <<"health", "">> }

\* The requests of the fair-scheduling specification.
LivePaths == { <<"health">>, <<"stats", "users">>, <<"invalid-endpoint">>, <<"health", "">> }

-----------------------------------------------------------------------------
(* main.py: the route table *)

\* FastAPI() with default arguments registers the documentation routes
\* (openapi_url, docs_url, swagger_ui_oauth2_redirect_url, redoc_url) through
\* Starlette's add_route, whose default methods are GET and HEAD.
DocsRoutes ==
    << [path |-> <<"openapi.json">>, methods |-> {"GET", "HEAD"}, endpoint |-> "openapi"],
       [path |-> <<"docs">>, methods |-> {"GET", "HEAD"}, endpoint |-> "swagger_ui_html"],
       [path |-> <<"docs", "oauth2-redirect">>, methods |-> {"GET", "HEAD"},
        endpoint |-> "swagger_ui_redirect"],
       [path |-> <<"redoc">>, methods |-> {"GET", "HEAD"}, endpoint |-> "redoc_html"] >>

\* Variant: the route also answers HEAD, as a plain Starlette Route for GET does.
HealthRouteWithHead ==
    [path |-> <<"health">>, methods |-> {"GET", "HEAD"}, endpoint |-> "health_check"]

\* @app.get("/health")
HealthRoute ==
    [path |-> <<"health">>, methods |-> {"GET"}, endpoint |-> "health_check"]

\* @app.post("/stats/users")
StatsUsersRoute ==
    [path |-> <<"stats", "users">>, methods |-> {"POST"}, endpoint |-> "get_user_stats"]

\* The route table once main.py has been imported, in registration order.
AppRoutes == DocsRoutes \o <<HealthRoute, StatsUsersRoute>>

-----------------------------------------------------------------------------
(* main.py: the handlers *)

\* Variant: the handler reports one more key.
health_check_uptime == [status |-> "ok", uptime |-> 0]

\* def health_check(): return {"status": "ok"}
health_check == [status |-> "ok"]

\* Variant: the two literals are exchanged.
get_user_stats_swapped == [total_users |-> 42, active_users |-> 100]

\* Variant: the handler counts the requests the service has seen.
get_user_stats_counting == [total_users |-> 100 + received, active_users |-> 42]

\* def get_user_stats(): return {"total_users": 100, "active_users": 42}
get_user_stats == [total_users |-> 100, active_users |-> 42]

\* The value an endpoint returns; the request is not passed to it.
CallEndpoint(endpoint) ==
    CASE endpoint = "health_check" -> health_check
      [] endpoint = "get_user_stats" -> get_user_stats
      [] OTHER -> [document |-> endpoint]

-----------------------------------------------------------------------------
(* Request dispatch of the application object *)

\* Variant: the method is compared before the path.
MatchMethodFirst(route, method, path) ==
    IF method \notin route.methods THEN "PARTIAL"
    ELSE IF route.path # path THEN "NONE"
    ELSE "FULL"

\* Route.matches: NONE when the path differs, PARTIAL when only the method does.
Match(route, method, path) ==
    IF route.path # path THEN "NONE"
    ELSE IF method \in route.methods THEN "FULL"
    ELSE "PARTIAL"

\* str.rstrip("/") on a path
RECURSIVE RStripSlash(_)
RStripSlash(path) ==
    IF path # <<>> /\ path[Len(path)] = ""
    THEN RStripSlash(SubSeq(path, 1, Len(path) - 1))
    ELSE path

\* The path the router tries when nothing matched (redirect_slashes).
RedirectPath(path) ==
    IF path[Len(path)] = "" THEN RStripSlash(path) ELSE Append(path, "")

\* Variant: POST /stats/users declares a UserStats body, so a request without a
\* valid one is rejected before the handler runs.
RespondValidatingBody(rts, request) ==
    IF request.method = "POST" /\ request.path = <<"stats", "users">>
    THEN [status |-> 422, body |-> [detail |-> "value is not a valid integer"],
          endpoint |-> "none"]
    ELSE [status |-> 404, body |-> [detail |-> "Not Found"], endpoint |-> "none"]

\* The response of the application with route table rts to a request.
\* request.body is not read: no route declares a parameter.
Respond(rts, request) ==
    LET method == request.method
        path == request.path
        idx == 1..Len(rts)
        full == {i \in idx : Match(rts[i], method, path) = "FULL"}
        partial == {i \in idx : Match(rts[i], method, path) = "PARTIAL"}
        First(S) == CHOOSE i \in S : \A j \in S : i <= j
    IN  IF full # {}
        THEN [status |-> 200,
              body |-> CallEndpoint(rts[First(full)].endpoint),
              endpoint |-> rts[First(full)].endpoint]
        ELSE IF partial # {}
        THEN [status |-> 405, body |-> [detail |-> "Method Not Allowed"],
              endpoint |-> "none"]
        ELSE IF path # <<"">>
                /\ \E i \in idx : Match(rts[i], method, RedirectPath(path)) # "NONE"
        THEN [status |-> 307, body |-> [location |-> RedirectPath(path)],
              endpoint |-> "none"]
        ELSE [status |-> 404, body |-> [detail |-> "Not Found"], endpoint |-> "none"]

-----------------------------------------------------------------------------
(* The running service *)

NotBuilt == [state |-> "not constructed"]

NoArgs == [total_users |-> [t |-> "none"], active_users |-> [t |-> "none"]]

Init ==
    /\ routes = AppRoutes
    /\ received = 0
    /\ pending = {}
    /\ responses = [id \in RequestIds |-> <<>>]
    /\ args = NoArgs
    /\ built = NotBuilt

\* The server accepts a request.
Receive(method, path, body) ==
    /\ received < MaxRequests
    /\ received' = received + 1
    /\ pending' = pending \cup
           {[id |-> received + 1, method |-> method, path |-> path, body |-> body]}
    /\ UNCHANGED <<routes, responses, args, built>>

\* Variant: requests are handled one at a time, in the order received.
HandleInOrder(id) ==
    \E r \in pending :
        /\ r.id = id
        /\ \A q \in pending : r.id <= q.id
        /\ responses' = [responses EXCEPT ![id] =
               Append(@, [method |-> r.method, path |-> r.path, sent |-> r.body]
                         @@ Respond(routes, [method |-> r.method, path |-> r.path,
                                             body |-> r.body]))]
        /\ pending' = pending \ {r}
        /\ UNCHANGED <<routes, received, args, built>>

\* The application handles request id and sends its response.
Handle(id) ==
    \E r \in pending :
        /\ r.id = id
        /\ responses' = [responses EXCEPT ![id] =
               Append(@, [method |-> r.method, path |-> r.path, sent |-> r.body]
                         @@ Respond(routes, [method |-> r.method, path |-> r.path,
                                             body |-> r.body]))]
        /\ pending' = pending \ {r}
        /\ UNCHANGED <<routes, received, args, built>>

Next ==
    \/ \E method \in Methods, path \in Paths, body \in Bodies :
           Receive(method, path, body)
    \/ \E id \in RequestIds : Handle(id)

Spec == Init /\ [][Next]_vars

\* The responses sent so far, as (request id, position) pairs.
Sent == {p \in RequestIds \X (1..MaxRequests) : p[2] <= Len(responses[p[1]])}

Reply(p) == responses[p[1]][p[2]]

NextLive ==
    \/ \E method \in Methods, path \in LivePaths : Receive(method, path, "")
    \/ \E id \in RequestIds : Handle(id)

\* The server runs every request it has accepted.
SpecLive ==
    Init /\ [][NextLive]_vars /\ \A id \in RequestIds : WF_vars(Handle(id))

-----------------------------------------------------------------------------
(* main.py: class UserStats(BaseModel) *)

Digits == <<"0", "1", "2", "3", "4", "5", "6", "7", "8", "9">>

IsDigit(c) == \E d \in 1..10 : Digits[d] = c

DigitValue(c) == (CHOOSE d \in 1..10 : Digits[d] = c) - 1

\* The value of a sequence of decimal digits.
RECURSIVE ParseDigits(_)
ParseDigits(s) ==
    IF s = <<>> THEN 0
    ELSE 10 * ParseDigits(SubSeq(s, 1, Len(s) - 1)) + DigitValue(s[Len(s)])

\* The digits of a string and whether a minus sign precedes them.
Unsigned(s) == IF s # <<>> /\ s[1] = "-" THEN Tail(s) ELSE s

\* A string the int field accepts: an optional sign and at least one digit.
IsIntLiteral(s) ==
    /\ Unsigned(s) # <<>>
    /\ \A k \in 1..Len(Unsigned(s)) : IsDigit(Unsigned(s)[k])

ParseInt(s) ==
    IF s # <<>> /\ s[1] = "-" THEN 0 - ParseDigits(Tail(s)) ELSE ParseDigits(s)

\* Variant: the field is declared as a non-negative count (ge=0).
IntFieldNonNegative(v) ==
    CASE v.t = "int" /\ v.i >= 0 -> [ok |-> TRUE, value |-> v.i]
      [] v.t = "str" /\ IsIntLiteral(v.s) /\ ParseInt(v.s) >= 0 ->
             [ok |-> TRUE, value |-> ParseInt(v.s)]
      [] OTHER -> [ok |-> FALSE, value |-> 0]

\* Validation of one field annotated `int`: an int is kept, a string holding
\* an integer literal is converted, anything else is an error.
IntField(v) ==
    CASE v.t = "int" -> [ok |-> TRUE, value |-> v.i]
      [] v.t = "str" /\ IsIntLiteral(v.s) -> [ok |-> TRUE, value |-> ParseInt(v.s)]
      [] OTHER -> [ok |-> FALSE, value |-> 0]

\* UserStats(total_users=total, active_users=active): the instance, or a
\* ValidationError listing every field whose value was rejected.
UserStats(total, active) ==
    LET t == IntField(total)
        a == IntField(active)
        errors == (IF t.ok THEN {} ELSE {"total_users"})
                  \cup (IF a.ok THEN {} ELSE {"active_users"})
    IN  IF errors = {}
        THEN [state |-> "UserStats", total_users |-> t.value, active_users |-> a.value]
        ELSE [state |-> "ValidationError", errors |-> errors]

PyInt(n) == [t |-> "int", i |-> n]

PyStr(s) == [t |-> "str", s |-> s]

PyNone == [t |-> "none"]

\* The values tried as keyword arguments.
ArgValues ==
    {PyInt(n) : n \in (0 - MaxInt)..MaxInt \cup {5, 10, 42, 100}}
    \cup {PyStr(s) : s \in { <<"1", "0", "0">>, <<"4", "2">>, <<"-", "5">>, <<>>,
                             <<"4", "x">>,
                             <<"f", "o", "r", "t", "y", "-", "t", "w", "o">> }}
    \cup {PyNone}

InitUserStats ==
    /\ routes = AppRoutes
    /\ received = 0
    /\ pending = {}
    /\ responses = [id \in RequestIds |-> <<>>]
    /\ args \in [total_users : ArgValues, active_users : ArgValues]
    /\ built = NotBuilt

\* user_stats = UserStats(**args)
Construct ==
    /\ built = NotBuilt
    /\ built' = UserStats(args.total_users, args.active_users)
    /\ UNCHANGED <<routes, received, pending, responses, args>>

NextUserStats == Construct

SpecUserStats == InitUserStats /\ [][NextUserStats]_vars

-----------------------------------------------------------------------------
(* Properties of UserStats *)

\* C5: constructing UserStats with a value for active_users that is not an
\* integer fails with a validation error naming active_users, whatever
\* total_users is, and yields no UserStats.
C5_Original ==
    built # NotBuilt /\ args.active_users.t # "int"
    => built.state = "ValidationError" /\ "active_users" \in built.errors

\* C6: constructing UserStats from two integers succeeds and both fields
\* read back unchanged.
C6_RoundTrip ==
    built # NotBuilt /\ args.total_users.t = "int" /\ args.active_users.t = "int"
    => /\ built.state = "UserStats"
       /\ built.total_users = args.total_users.i
       /\ built.active_users = args.active_users.i

C6_Witness ==
    /\ args = [total_users |-> PyInt(10), active_users |-> PyInt(5)]
    /\ built.state = "UserStats"
    /\ built.total_users = 10 /\ built.active_users = 5

-----------------------------------------------------------------------------
(* Properties of the service *)

\* C1: every GET /health is answered 200 with the body {"status": "ok"} and
\* no other key, whatever was served before.
C1_HealthOk ==
    \A p \in Sent :
        Reply(p).method = "GET" /\ Reply(p).path = <<"health">>
        => /\ Reply(p).status = 200
           /\ DOMAIN Reply(p).body = {"status"}
           /\ Reply(p).body.status = "ok"

C1_Witness ==
    /\ <<1, 1>> \in Sent /\ Reply(<<1, 1>>).path = <<"stats", "users">>
    /\ <<2, 1>> \in Sent
    /\ Reply(<<2, 1>>).method = "GET" /\ Reply(<<2, 1>>).path = <<"health">>
    /\ Reply(<<2, 1>>).status = 200

\* C2: every POST /stats/users, whatever its body, is answered 200 with the
\* integer fields total_users = 100 and active_users = 42, so
\* 0 <= active_users <= total_users.
C2_StatsOk ==
    \A p \in Sent :
        Reply(p).method = "POST" /\ Reply(p).path = <<"stats", "users">>
        => /\ Reply(p).status = 200
           /\ DOMAIN Reply(p).body = {"total_users", "active_users"}
           /\ Reply(p).body.total_users \in Int
           /\ Reply(p).body.active_users \in Int
           /\ Reply(p).body.total_users = 100
           /\ Reply(p).body.active_users = 42
           /\ 0 <= Reply(p).body.active_users
           /\ Reply(p).body.active_users <= Reply(p).body.total_users

C2_Witness ==
    \E p \in Sent :
        /\ Reply(p).method = "POST" /\ Reply(p).path = <<"stats", "users">>
        /\ Reply(p).sent # ""
        /\ Reply(p).status = 200

\* C3: /health with a method other than GET and /stats/users with a method
\* other than POST are answered 405 and no handler runs.
C3_MethodNotAllowed ==
    \A p \in Sent :
        \/ Reply(p).path = <<"health">> /\ Reply(p).method # "GET"
        \/ Reply(p).path = <<"stats", "users">> /\ Reply(p).method # "POST"
        => Reply(p).status = 405 /\ Reply(p).endpoint = "none"

C3_Witness ==
    \E p, q \in Sent :
        /\ Reply(p).method = "GET" /\ Reply(p).path = <<"stats", "users">>
        /\ Reply(p).status = 405
        /\ Reply(q).method = "POST" /\ Reply(q).path = <<"health">>
        /\ Reply(q).status = 405

\* C4 as stated: every request whose path is neither /health nor
\* /stats/users is answered 404.
C4_Original ==
    \A p \in Sent :
        Reply(p).path \notin {<<"health">>, <<"stats", "users">>}
        => Reply(p).status = 404

\* C4, amended: a request whose path, trailing slashes removed, is none of
\* the registered paths (/health, /stats/users and the documentation paths
\* /openapi.json, /docs, /docs/oauth2-redirect, /redoc) is answered 404 for
\* every method, and no handler runs.
C4_NotFound ==
    \A p \in Sent :
        RStripSlash(Reply(p).path) \notin
            { <<"health">>, <<"stats", "users">>, <<"openapi.json">>, <<"docs">>,
              <<"docs", "oauth2-redirect">>, <<"redoc">> }
        => Reply(p).status = 404 /\ Reply(p).endpoint = "none"

C4_Witness ==
    \E p, q \in Sent :
        /\ Reply(p).path = <<"invalid-endpoint">> /\ Reply(p).method = "GET"
        /\ Reply(q).path = <<"invalid-endpoint">> /\ Reply(q).method = "POST"
        /\ Reply(p).status = 404 /\ Reply(q).status = 404

C9_Original == \A p \in Sent : Reply(p).status \in {200, 404, 405}

\* C9, amended: every response has status 200, 307, 404 or 405 (307 is the
\* redirect for a registered path written with a trailing slash), never
\* 500 or 422.
C9_NoInternalError ==
    \A p \in Sent :
        /\ Reply(p).status \in {200, 307, 404, 405}
        /\ Reply(p).status \notin {500, 422}

C9_Witness ==
    \E p, q \in Sent :
        /\ Reply(p).status = 307
        /\ Reply(q).method = "POST" /\ Reply(q).path = <<"stats", "users">>
        /\ Reply(q).sent # "" /\ Reply(q).status = 200

\* C10: under fair scheduling every received request is answered; it is
\* answered once, in one step that takes it from pending to answered, and a
\* pending request can always be handled whatever else is in flight.
C10_AnsweredOnce ==
    /\ \A id \in RequestIds : (received >= id) ~> (Len(responses[id]) = 1)
    /\ [](\A id \in RequestIds :
              /\ Len(responses[id]) <= 1
              /\ (\E r \in pending : r.id = id) => Len(responses[id]) = 0
              /\ (\E r \in pending : r.id = id) => ENABLED Handle(id))
    /\ [][\A id \in RequestIds :
              responses'[id] # responses[id]
              => /\ Len(responses[id]) = 0 /\ Len(responses'[id]) = 1
                 /\ \E r \in pending : r.id = id
                 /\ ~ \E r \in pending' : r.id = id]_vars

C10_Witness ==
    /\ \E r \in pending : r.id = 1
    /\ Len(responses[2]) = 1

=============================================================================
